---- MODULE Spec2Model ----
(***************************************************************************)
(* Model of the two Lambda entrypoints of the repository:                  *)
(*   code/pullDataFromApi.py  ingestion  (BLS sync, orphan archiving,      *)
(*                            DataUSA snapshot, combined status)           *)
(*   code/Report.py           analytics  (top-level handler)               *)
(* The bucket is a function from keys to objects.  A key is the sequence   *)
(* of its "/"-separated segments, the first segment standing for the       *)
(* configured prefix ("pr" = raw/pr/, "pop" = raw/datausa/population,      *)
(* "analytics" = analytics/results).                                       *)
(***************************************************************************)
EXTENDS Integers, Sequences, FiniteSets, TLC

\* ---------------------------------------------------------------- bounds
\* The clock counts ticks; it stops advancing at MaxTick.
MaxTick == 2
\* Invocations of the two Lambda entrypoints in one behaviour.
MaxInvocations == 1
\* Direct calls of sync_bls_to_s3 or sync_datausa_to_s3 in one behaviour.
MaxCalls == 2
\* Rows of the BLS table that the analyses are applied to.
MaxRows == 3
\* Rows of the population table that the analyses are applied to.
MaxPopulationRows == 1

\* ----------------------------------------------------- program constants
\* Clock ticks per second: strftime("%Y%m%d_%H%M%S") and the storage
\* timestamps have second precision, the clock is finer.
TicksPerSecond == 2
\* remote_last_modified is None when the listing's timestamp does not parse.
NoTimestamp == -1

\* File names that a directory listing or the bucket can hold.
Names == {"pr.data.0.Current", "pr.txt"}
\* Key that the analytics stage reads the BLS table from.
BLS_DATA_KEY == <<"pr", "pr.data.0.Current">>

\* datetime.now(timezone.utc) cut to second precision.
Second(t) == t \div TicksPerSecond

\* The timestamps of a directory listing: None, or a second of the clock's
\* range.
RemoteTimestamps == {NoTimestamp} \cup (0 .. Second(MaxTick))

Range(s) == {s[i] : i \in 1 .. Len(s)}

\* Sequences over S without repetition, of length at most n.
RECURSIVE DistinctSeqs(_, _)
DistinctSeqs(S, n) ==
    IF n = 0 THEN {<< >>}
    ELSE LET shorter == DistinctSeqs(S, n - 1)
         IN  shorter \cup
             {Append(s, x) : s \in {t \in shorter : Len(t) = n - 1}, x \in S}

\* The results of discover_bls_files: (name, timestamp) entries in document
\* order, names distinct.
Listings ==
    {fs \in DistinctSeqs([name : Names, ts : RemoteTimestamps],
                         Cardinality(Names)) :
        \A i, j \in 1 .. Len(fs) : i # j => fs[i].name # fs[j].name}

\* -------------------------------------------------------------- storage
EmptyBucket == [k \in {} |-> [lm |-> 0, body |-> [src |-> "", ver |-> 0]]]

\* put / upload: the object at key is replaced.
PutObject(s3, key, obj) ==
    [k \in DOMAIN s3 \cup {key} |-> IF k = key THEN obj ELSE s3[k]]

\* delete_object
DeleteObject(s3, key) == [k \in DOMAIN s3 \ {key} |-> s3[k]]

\* copy_object with the source key as the destination.
CopyObject_OntoItself(s3, src, dst, t) ==
    PutObject(s3, src, [lm |-> Second(t), body |-> s3[src].body])

\* copy_object: same body, new last-modified time.
CopyObject(s3, src, dst, t) ==
    PutObject(s3, dst, [lm |-> Second(t), body |-> s3[src].body])

LiveKey(name) == <<"pr", name>>
DeletedKey(name) == <<"pr", "deleted", name>>
NestedKey(name) == <<"pr", "sub", name>>

\* list_objects_v2(Bucket, Prefix=prefix): the keys that start with prefix.
ListObjects(s3, prefix) == {k \in DOMAIN s3 : k[1] = prefix}

\* Payloads that the DataUSA API can answer with.
PopulationPayloads == {1, 2, 3}

\* The keys of the BLS prefix in the order list_objects_v2 returns them
\* (ascending by key).
PrKeyOrder ==
    << DeletedKey("pr.data.0.Current"), DeletedKey("pr.txt"),
       LiveKey("pr.data.0.Current"), LiveKey("pr.txt"),
       NestedKey("pr.txt") >>

\* s3_response['Contents'] of list_objects_v2(Bucket=bucket, Prefix=prefix)
Contents(s3) ==
    SelectSeq(PrKeyOrder, LAMBDA k : k \in ListObjects(s3, "pr"))

\* key.startswith(f"{prefix}deleted/")
InDeletedFolder(key) == Len(key) >= 3 /\ key[2] = "deleted"

\* filename = key.replace(prefix, "", 1), as the list of its segments
Filename(key) == Tail(key)

\* filename and "/" not in filename
IsDirectFile(key) == Len(Filename(key)) = 1

\* The s3_files list of sync_bls_to_s3: the names of the objects directly
\* under the prefix, the deleted/ folder left out.
S3Files(contents) ==
    LET kept == SelectSeq(contents,
                    LAMBDA k : ~InDeletedFolder(k) /\ IsDirectFile(k))
    IN  [i \in 1 .. Len(kept) |-> Filename(kept[i])[1]]

\* bls_file_names = {name for name, _, _ in files}
BlsFileNames(fs) == {fs[i].name : i \in 1 .. Len(fs)}

\* orphaned_files without the comparison with the remote listing.
OrphanedFiles_All(s3files, fs) == s3files

\* orphaned_files = [filename for filename, _ in s3_files
\*                   if filename not in bls_file_names]
OrphanedFiles(s3files, fs) ==
    SelectSeq(s3files, LAMBDA n : n \notin BlsFileNames(fs))

\* ------------------------------------------------------- the Sync Decider
\* s3_client.head_object: the stored timestamp, a 404, or another failure.
HeadObject(s3, key, fails) ==
    IF fails THEN [status |-> "error", LastModified |-> 0]
    ELSE IF key \in DOMAIN s3
         THEN [status |-> "ok", LastModified |-> s3[key].lm]
         ELSE [status |-> "404", LastModified |-> 0]

Decision(raised, upload, reason) ==
    [raised |-> raised, upload |-> upload, reason |-> reason]

\* should_upload with the missing timestamp looked at before the lookup.
should_upload_TimestampFirst(remote_last_modified, s3, key, fails) ==
    LET head == HeadObject(s3, key, fails)
    IN  IF remote_last_modified = NoTimestamp
        THEN Decision(FALSE, TRUE, "no-timestamp")
        ELSE IF head.status = "404" THEN Decision(FALSE, TRUE, "new")
        ELSE IF head.status = "error" THEN Decision(TRUE, FALSE, "raise")
        ELSE IF remote_last_modified > head.LastModified
             THEN Decision(FALSE, TRUE, "updated")
        ELSE Decision(FALSE, FALSE, "up-to-date")

\* should_upload with >= for >.
should_upload_NotOlder(remote_last_modified, s3, key, fails) ==
    LET head == HeadObject(s3, key, fails)
    IN  IF head.status = "404" THEN Decision(FALSE, TRUE, "new")
        ELSE IF head.status = "error" THEN Decision(TRUE, FALSE, "raise")
        ELSE IF remote_last_modified = NoTimestamp
             THEN Decision(FALSE, TRUE, "no-timestamp")
        ELSE IF remote_last_modified >= head.LastModified
             THEN Decision(FALSE, TRUE, "updated")
        ELSE Decision(FALSE, FALSE, "up-to-date")

\* should_upload(remote_last_modified, s3_client, bucket, key)
should_upload(remote_last_modified, s3, key, fails) ==
    LET head == HeadObject(s3, key, fails)
    IN  IF head.status = "404" THEN Decision(FALSE, TRUE, "new")
        ELSE IF head.status = "error" THEN Decision(TRUE, FALSE, "raise")
        ELSE IF remote_last_modified = NoTimestamp
             THEN Decision(FALSE, TRUE, "no-timestamp")
        ELSE IF remote_last_modified > head.LastModified
             THEN Decision(FALSE, TRUE, "updated")
        ELSE Decision(FALSE, FALSE, "up-to-date")

\* stream_to_s3 with the upload left out.
StreamToS3_NoUpload(s3, key, file, t) == s3

\* stream_to_s3: the object written by upload_fileobj.
StreamToS3(s3, key, file, t) ==
    PutObject(s3, key,
        [lm |-> Second(t), body |-> [src |-> file.name, ver |-> file.ts]])

\* ------------------------------------------------------ Snapshot Writer
\* key = f"{prefix.rstrip('/')}/population_{timestamp}.json"
PopulationKey(t) ==
    <<"pop", "population_" \o ToString(Second(t)) \o ".json">>

\* ------------------------------------------------------- overall status
\* status_code with 200 as soon as one part succeeded.
StatusCode_AnySuccess(part1_success, part2_success) ==
    IF part1_success \/ part2_success THEN 200
    ELSE 500

\* status_code of the ingestion lambda_handler
StatusCode(part1_success, part2_success) ==
    IF part1_success /\ part2_success THEN 200
    ELSE IF part1_success \/ part2_success THEN 207
    ELSE 500

\* ================================================================ state
VARIABLES
    store,           \* the bucket: key -> [lm, body]
    now,             \* the clock, in ticks
    invocations,     \* invocations of the Lambda entrypoints so far
    calls,           \* direct calls of the two sync functions so far
    entry,           \* what was invoked last: "lambda_handler", "analytics",
                     \* "sync_bls_to_s3", "sync_datausa_to_s3"
    bucket,          \* BLS_SYNC_BUCKET is set (lambda_handler, line 334)
    user_agent,      \* BLS_SYNC_USER_AGENT is set (lambda_handler, line 335)
    pc,              \* position of the handler
    outcome,         \* "none", "returned" or "raised": how the handler ended
    status_code,     \* statusCode of the returned response (0: none yet)
    part1_bls,       \* results["part1_bls"]
    part2_population,\* results["part2_population"]
    files,           \* files of sync_bls_to_s3 (the remote listing)
    s3_files,        \* s3_files of sync_bls_to_s3
    listed,          \* list_objects_v2 answered (no exception at 140-142)
    idx,             \* position of the upload loop
    uploaded, skipped, errors, moved,   \* the counters of sync_bls_to_s3
    decision,        \* what should_upload last answered, and for which file
    orphaned_files,  \* orphaned_files of sync_bls_to_s3
    oidx,            \* position of the orphan loop
    attempted,       \* the orphans whose copy_object has been issued, in order
    data,            \* the payload fetch_population_data returned (0: none)
    prev,            \* the latest BLS sync that returned: whether its upload
                     \* loop had no error, its listing if so, the files it
                     \* moved
    failed,          \* the failures of the running or latest BLS sync: the
                     \* files whose decision or upload raised, the orphans
                     \* whose move raised
    bls_data,        \* bls_data of Report.lambda_handler
    pop_data,        \* pop_data of Report.lambda_handler
    q1, q2, q3       \* the results of the three analyses

vars == << store, now, invocations, calls, entry, bucket, user_agent, pc,
           outcome, status_code, part1_bls, part2_population, files,
           s3_files, listed, idx, uploaded, skipped, errors, moved, decision,
           orphaned_files, oidx, attempted, data, prev, failed, bls_data,
           pop_data, q1, q2, q3 >>

handlerVars == << invocations, calls, entry, bucket, user_agent, pc, outcome,
                  status_code, part1_bls, part2_population >>
syncVars == << files, s3_files, listed, idx, uploaded, skipped, errors, moved,
               decision, orphaned_files, oidx, attempted >>

NoPart == [present |-> FALSE, success |-> FALSE, fatal |-> FALSE,
           total |-> 0, uploaded |-> 0, skipped |-> 0, moved |-> 0,
           errors |-> 0]
NoPart2 == [present |-> FALSE, success |-> FALSE, s3_key |-> << >>]
NoDecision == [called |-> FALSE, name |-> "", ts |-> NoTimestamp,
               found |-> FALSE, stored |-> 0, raised |-> FALSE,
               upload |-> FALSE, reason |-> ""]
NoPrev == [valid |-> FALSE, files |-> {}, clean |-> FALSE, moved |-> {}]
NoFailed == [files |-> 0, moves |-> 0]

reportVars == << bls_data, pop_data, q1, q2, q3 >>

\* An analysis that has not run.
NotRun == [kind |-> "not-run"]

\* The locals of sync_bls_to_s3 before it runs and after it has returned.
NoSync ==
    /\ files' = << >> /\ s3_files' = << >> /\ listed' = FALSE /\ idx' = 1
    /\ uploaded' = 0 /\ skipped' = 0 /\ errors' = 0 /\ moved' = 0
    /\ decision' = NoDecision
    /\ orphaned_files' = << >> /\ oidx' = 1 /\ attempted' = << >>

\* The bucket at the start: an earlier sync has mirrored pr.txt, and
\* something other than this program has put an object in a sub-folder of
\* the BLS prefix.
MirroredBucket ==
    PutObject(
        PutObject(EmptyBucket, NestedKey("pr.txt"),
                  [lm |-> 0, body |-> [src |-> "pr.txt", ver |-> 0]]),
        LiveKey("pr.txt"),
        [lm |-> 0, body |-> [src |-> "pr.txt", ver |-> 0]])

Init ==
    /\ store = MirroredBucket
    /\ now = 0
    /\ invocations = 0
    /\ calls = 0
    /\ entry = "none"
    /\ bucket = TRUE
    /\ user_agent = TRUE
    /\ pc = "idle"
    /\ outcome = "none"
    /\ status_code = 0
    /\ part1_bls = NoPart
    /\ part2_population = NoPart2
    /\ files = << >>
    /\ s3_files = << >>
    /\ listed = FALSE
    /\ idx = 1
    /\ uploaded = 0 /\ skipped = 0 /\ errors = 0 /\ moved = 0
    /\ decision = NoDecision
    /\ orphaned_files = << >>
    /\ oidx = 1
    /\ attempted = << >>
    /\ data = 0
    /\ prev = NoPrev
    /\ failed = NoFailed
    /\ bls_data = << >>
    /\ pop_data = << >>
    /\ q1 = NotRun /\ q2 = NotRun /\ q3 = NotRun

\* ------------------------------------------------------------- the clock
Tick ==
    /\ now < MaxTick
    /\ now' = now + 1
    /\ UNCHANGED << store, handlerVars, syncVars, data, prev >>
    /\ UNCHANGED << failed, reportVars >>

\* ================================================= ingestion lambda_handler
\* Entry: the configuration is read and validated (lines 334-360).
LambdaHandler ==
    /\ pc \in {"idle", "exit"}
    /\ invocations < MaxInvocations
    /\ invocations' = invocations + 1
    /\ entry' = "lambda_handler"
    /\ bucket' \in BOOLEAN
    /\ user_agent' \in BOOLEAN
    /\ IF bucket' /\ user_agent'
       THEN /\ pc' = "part1"
            /\ outcome' = "none"
       ELSE /\ pc' = "exit"
            /\ outcome' = "raised"
    /\ status_code' = 0
    /\ part1_bls' = NoPart
    /\ part2_population' = NoPart2
    /\ UNCHANGED << store, now, calls, syncVars, data, prev >>
    /\ failed' = NoFailed
    /\ UNCHANGED reportVars

\* A call of sync_bls_to_s3 from outside the handler.
SyncBlsToS3 ==
    /\ pc \in {"idle", "exit"}
    /\ calls < MaxCalls
    /\ calls' = calls + 1
    /\ entry' = "sync_bls_to_s3"
    /\ pc' = "part1"
    /\ outcome' = "none"
    /\ status_code' = 0
    /\ part1_bls' = NoPart
    /\ part2_population' = NoPart2
    /\ UNCHANGED << store, now, invocations, bucket, user_agent, syncVars,
                    data, prev >>
    /\ failed' = NoFailed
    /\ UNCHANGED reportVars

\* The directory listing, with a failure that leaves lambda_handler.
DiscoverBlsFiles_Propagates ==
    /\ pc = "part1"
    /\ \/ \E fs \in Listings :
             /\ files' = fs
             /\ pc' = "list"
             /\ UNCHANGED << part1_bls, outcome >>
       \/ /\ UNCHANGED files
          /\ outcome' = "raised"
          /\ pc' = "exit"
          /\ UNCHANGED part1_bls
    /\ UNCHANGED << store, now, invocations, calls, entry, bucket,
                    user_agent, status_code,
                    part2_population, s3_files, listed, idx, uploaded,
                    skipped, errors, moved, decision, orphaned_files, oidx,
                    attempted, data, prev >>
    /\ UNCHANGED << failed, reportVars >>

\* The directory listing, with a failure after which lambda_handler goes
\* straight to the overall status.
DiscoverBlsFiles_EndsHandler ==
    /\ pc = "part1"
    /\ \/ \E fs \in Listings :
             /\ files' = fs
             /\ pc' = "list"
             /\ UNCHANGED << part1_bls, outcome >>
       \/ /\ UNCHANGED files
          /\ IF entry = "lambda_handler"
             THEN /\ part1_bls' = [NoPart EXCEPT !.present = TRUE,
                                                 !.fatal = TRUE]
                  /\ pc' = "status"
                  /\ UNCHANGED outcome
             ELSE /\ outcome' = "raised"
                  /\ pc' = "exit"
                  /\ UNCHANGED part1_bls
    /\ UNCHANGED << store, now, invocations, calls, entry, bucket,
                    user_agent, status_code,
                    part2_population, s3_files, listed, idx, uploaded,
                    skipped, errors, moved, decision, orphaned_files, oidx,
                    attempted, data, prev >>
    /\ UNCHANGED << failed, reportVars >>

\* sync_bls_to_s3, lines 112-123: the client and the directory listing. A
\* failure here leaves sync_bls_to_s3 and is caught at lines 373-378.
DiscoverBlsFiles ==
    /\ pc = "part1"
    /\ \/ \E fs \in Listings :
             /\ files' = fs
             /\ pc' = "list"
             /\ UNCHANGED << part1_bls, outcome >>
       \/ /\ UNCHANGED files
          /\ IF entry = "lambda_handler"
             THEN /\ part1_bls' = [NoPart EXCEPT !.present = TRUE,
                                                 !.fatal = TRUE]
                  /\ pc' = "part2"
                  /\ UNCHANGED outcome
             ELSE /\ outcome' = "raised"
                  /\ pc' = "exit"
                  /\ UNCHANGED part1_bls
    /\ UNCHANGED << store, now, invocations, calls, entry, bucket,
                    user_agent, status_code,
                    part2_population, s3_files, listed, idx, uploaded,
                    skipped, errors, moved, decision, orphaned_files, oidx,
                    attempted, data, prev >>
    /\ UNCHANGED << failed, reportVars >>

\* sync_bls_to_s3, lines 125-147: the live files of the bucket.
ListS3Files ==
    /\ pc = "list"
    /\ \/ /\ s3_files' = S3Files(Contents(store))
          /\ listed' = TRUE
       \/ /\ s3_files' = << >>
          /\ listed' = FALSE
    /\ idx' = 1
    /\ uploaded' = 0 /\ skipped' = 0 /\ errors' = 0
    /\ pc' = "loop"
    /\ UNCHANGED << store, now, invocations, calls, entry, bucket,
                    user_agent, outcome, status_code,
                    part1_bls, part2_population, files, moved, decision,
                    orphaned_files, oidx, attempted, data, prev >>
    /\ UNCHANGED << failed, reportVars >>

\* sync_bls_to_s3, lines 149-165: one iteration of the upload loop.
ProcessFile ==
    /\ pc = "loop"
    /\ idx <= Len(files)
    /\ LET file == files[idx]
           key == LiveKey(file.name)
       IN  \E head_fails, stream_fails \in BOOLEAN :
              LET d == should_upload(file.ts, store, key, head_fails)
              IN  /\ decision' = [called |-> TRUE, name |-> file.name,
                                  ts |-> file.ts,
                                  found |-> key \in DOMAIN store,
                                  stored |-> IF key \in DOMAIN store
                                             THEN store[key].lm ELSE 0,
                                  raised |-> d.raised, upload |-> d.upload,
                                  reason |-> d.reason]
                  /\ IF d.raised
                     THEN /\ errors' = errors + 1
                          /\ failed' = [failed EXCEPT !.files = @ + 1]
                          /\ UNCHANGED << store, uploaded, skipped >>
                     ELSE IF d.upload
                     THEN IF stream_fails
                          THEN /\ errors' = errors + 1
                               /\ failed' = [failed EXCEPT !.files = @ + 1]
                               /\ UNCHANGED << store, uploaded, skipped >>
                          ELSE /\ store' = StreamToS3(store, key, file, now)
                               /\ uploaded' = uploaded + 1
                               /\ UNCHANGED << errors, skipped, failed >>
                     ELSE /\ skipped' = skipped + 1
                          /\ UNCHANGED << store, uploaded, errors,
                                          failed >>
    /\ idx' = idx + 1
    /\ UNCHANGED << now, handlerVars, files, s3_files, listed, moved,
                    orphaned_files, oidx, attempted, data, prev >>
    /\ UNCHANGED reportVars

\* sync_bls_to_s3, lines 167-173: the orphans are selected.
TrackDeletions ==
    /\ pc = "loop"
    /\ idx > Len(files)
    /\ moved' = 0
    /\ orphaned_files' = OrphanedFiles(s3_files, files)
    /\ oidx' = 1
    /\ decision' = NoDecision
    /\ pc' = "archive"
    /\ UNCHANGED << store, now, invocations, calls, entry, bucket,
                    user_agent, outcome, status_code,
                    part1_bls, part2_population, files, s3_files, listed,
                    idx, uploaded, skipped, errors, attempted, data, prev >>
    /\ UNCHANGED << failed, reportVars >>

\* The copy of one orphan, with a failure that ends the loop.
CopyOrphan_AbortsOnError ==
    /\ pc = "archive"
    /\ oidx <= Len(orphaned_files)
    /\ LET filename == orphaned_files[oidx]
           old_key == LiveKey(filename)
           new_key == DeletedKey(filename)
       IN  /\ attempted' = Append(attempted, filename)
           /\ \/ /\ old_key \in DOMAIN store
                 /\ store' = CopyObject(store, old_key, new_key, now)
                 /\ pc' = "delete"
                 /\ UNCHANGED << errors, oidx, failed >>
              \/ /\ errors' = errors + 1
                 /\ failed' = [failed EXCEPT !.moves = @ + 1]
                 /\ oidx' = Len(orphaned_files) + 1
                 /\ UNCHANGED << store, pc >>
    /\ UNCHANGED << now, invocations, calls, entry, bucket, user_agent,
                    outcome, status_code, part1_bls, part2_population, files,
                    s3_files, listed, idx, uploaded, skipped, moved, decision,
                    orphaned_files, data, prev >>
    /\ UNCHANGED reportVars

\* sync_bls_to_s3, lines 175-185 and 190-192: the copy of one orphan.
CopyOrphan ==
    /\ pc = "archive"
    /\ oidx <= Len(orphaned_files)
    /\ LET filename == orphaned_files[oidx]
           old_key == LiveKey(filename)
           new_key == DeletedKey(filename)
       IN  /\ attempted' = Append(attempted, filename)
           /\ \/ /\ old_key \in DOMAIN store
                 /\ store' = CopyObject(store, old_key, new_key, now)
                 /\ pc' = "delete"
                 /\ UNCHANGED << errors, oidx, failed >>
              \/ /\ errors' = errors + 1
                 /\ failed' = [failed EXCEPT !.moves = @ + 1]
                 /\ oidx' = oidx + 1
                 /\ UNCHANGED << store, pc >>
    /\ UNCHANGED << now, invocations, calls, entry, bucket, user_agent,
                    outcome, status_code,
                    part1_bls, part2_population, files, s3_files, listed,
                    idx, uploaded, skipped, moved, decision, orphaned_files,
                    data, prev >>
    /\ UNCHANGED reportVars

\* sync_bls_to_s3, lines 186-192: the delete of the orphan just copied.
DeleteOriginal ==
    /\ pc = "delete"
    /\ \/ /\ store' = DeleteObject(store, LiveKey(orphaned_files[oidx]))
          /\ moved' = moved + 1
          /\ UNCHANGED << errors, failed >>
       \/ /\ errors' = errors + 1
          /\ failed' = [failed EXCEPT !.moves = @ + 1]
          /\ UNCHANGED << store, moved >>
    /\ oidx' = oidx + 1
    /\ pc' = "archive"
    /\ UNCHANGED << now, invocations, calls, entry, bucket, user_agent,
                    outcome, status_code,
                    part1_bls, part2_population, files, s3_files, listed,
                    idx, uploaded, skipped, decision, orphaned_files,
                    attempted, data, prev >>
    /\ UNCHANGED reportVars

\* The orphans that the run has moved: copied, and then deleted.
MovedNames ==
    {attempted[i] : i \in {j \in 1 .. Len(attempted) :
                              LiveKey(attempted[j]) \notin DOMAIN store}}

\* The return of sync_bls_to_s3 with a success flag that looks at the upload
\* loop only.
SyncBlsReturn_IgnoresMoveErrors ==
    /\ pc = "archive"
    /\ oidx > Len(orphaned_files)
    /\ part1_bls' = [present |-> TRUE,
                     success |-> uploaded + skipped = Len(files),
                     fatal |-> FALSE, total |-> Len(files),
                     uploaded |-> uploaded, skipped |-> skipped,
                     moved |-> moved, errors |-> errors]
    /\ prev' = [valid |-> TRUE,
                clean |-> uploaded + skipped = Len(files),
                files |-> IF uploaded + skipped = Len(files)
                          THEN Range(files) ELSE {},
                moved |-> MovedNames]
    /\ NoSync
    /\ IF entry = "lambda_handler"
       THEN pc' = "part2" /\ UNCHANGED outcome
       ELSE pc' = "exit" /\ outcome' = "returned"
    /\ UNCHANGED << store, now, invocations, calls, entry, bucket,
                    user_agent, status_code,
                    part2_population, data >>
    /\ UNCHANGED << failed, reportVars >>

\* sync_bls_to_s3, lines 194-211, and lambda_handler, lines 368-371. The
\* locals of sync_bls_to_s3 end here; prev keeps what a later run is
\* compared with.
SyncBlsReturn ==
    /\ pc = "archive"
    /\ oidx > Len(orphaned_files)
    /\ part1_bls' = [present |-> TRUE, success |-> errors = 0,
                     fatal |-> FALSE, total |-> Len(files),
                     uploaded |-> uploaded, skipped |-> skipped,
                     moved |-> moved, errors |-> errors]
    /\ prev' = [valid |-> TRUE,
                clean |-> uploaded + skipped = Len(files),
                files |-> IF uploaded + skipped = Len(files)
                          THEN Range(files) ELSE {},
                moved |-> MovedNames]
    /\ NoSync
    /\ IF entry = "lambda_handler"
       THEN pc' = "part2" /\ UNCHANGED outcome
       ELSE pc' = "exit" /\ outcome' = "returned"
    /\ UNCHANGED << store, now, invocations, calls, entry, bucket,
                    user_agent, status_code,
                    part2_population, data >>
    /\ UNCHANGED << failed, reportVars >>

\* A call of sync_datausa_to_s3 from outside the handler.
SyncDatausaToS3 ==
    /\ pc \in {"idle", "exit"}
    /\ calls < MaxCalls
    /\ calls' = calls + 1
    /\ entry' = "sync_datausa_to_s3"
    /\ pc' = "part2"
    /\ outcome' = "none"
    /\ status_code' = 0
    /\ part1_bls' = NoPart
    /\ part2_population' = NoPart2
    /\ UNCHANGED << store, now, invocations, bucket, user_agent, syncVars,
                    data, prev >>
    /\ failed' = NoFailed
    /\ UNCHANGED reportVars

\* Where sync_datausa_to_s3 returns to: the handler goes on to the overall
\* status (lines 386-389), a direct call ends.
DatausaReturn ==
    IF entry = "lambda_handler"
    THEN pc' = "status" /\ UNCHANGED outcome
    ELSE pc' = "exit" /\ outcome' = "returned"

\* sync_datausa_to_s3, lines 278-280 and 300-305: the API fetch.
FetchPopulationData ==
    /\ pc = "part2"
    /\ \/ /\ data' \in PopulationPayloads
          /\ pc' = "save"
          /\ UNCHANGED << part2_population, outcome >>
       \/ /\ part2_population' = [NoPart2 EXCEPT !.present = TRUE]
          /\ DatausaReturn
          /\ UNCHANGED data
    /\ UNCHANGED << store, now, invocations, calls, entry, bucket,
                    user_agent, status_code,
                    part1_bls, syncVars, prev >>
    /\ UNCHANGED << failed, reportVars >>

\* save_population_to_s3 (lines 235-267) and the rest of sync_datausa_to_s3.
SavePopulationToS3 ==
    /\ pc = "save"
    /\ \/ /\ store' = PutObject(store, PopulationKey(now),
                        [lm |-> Second(now),
                         body |-> [src |-> "datausa", ver |-> data]])
          /\ part2_population' = [present |-> TRUE, success |-> TRUE,
                                  s3_key |-> PopulationKey(now)]
       \/ /\ part2_population' = [NoPart2 EXCEPT !.present = TRUE]
          /\ UNCHANGED store
    /\ data' = 0
    /\ DatausaReturn
    /\ UNCHANGED << now, invocations, calls, entry, bucket, user_agent,
                    status_code, part1_bls,
                    syncVars, prev >>
    /\ UNCHANGED << failed, reportVars >>

\* lambda_handler, lines 398-425: the overall status and the response.
OverallStatus ==
    /\ pc = "status"
    /\ status_code' = StatusCode(part1_bls.success, part2_population.success)
    /\ outcome' = "returned"
    /\ pc' = "exit"
    /\ UNCHANGED << store, now, invocations, calls, entry, bucket,
                    user_agent, part1_bls,
                    part2_population, syncVars, data, prev >>
    /\ UNCHANGED << failed, reportVars >>

\* ================================================= analytics lambda_handler
\* results_key of Report.lambda_handler
ResultsKey(t) ==
    <<"analytics", "analysis_results_" \o ToString(Second(t)) \o ".json">>

\* Report.lambda_handler, lines 201-264. The loads and the analyses either
\* succeed or raise; whatever they raise is caught at line 253, and a failed
\* save at line 241.
AnalyticsHandler ==
    /\ pc \in {"idle", "exit"}
    /\ invocations < MaxInvocations
    /\ invocations' = invocations + 1
    /\ entry' = "analytics"
    /\ \E load_fails, compute_fails, save_fails \in BOOLEAN :
          IF load_fails \/ compute_fails \/ BLS_DATA_KEY \notin DOMAIN store
          THEN /\ status_code' = 500
               /\ UNCHANGED store
          ELSE /\ status_code' = 200
               /\ IF save_fails
                  THEN UNCHANGED store
                  ELSE store' = PutObject(store, ResultsKey(now),
                                  [lm |-> Second(now),
                                   body |-> [src |-> "analytics", ver |-> 0]])
    /\ outcome' = "returned"
    /\ pc' = "exit"
    /\ part1_bls' = NoPart
    /\ part2_population' = NoPart2
    /\ UNCHANGED << now, calls, bucket, user_agent, syncVars, data, prev >>
    /\ failed' = NoFailed
    /\ UNCHANGED reportVars

\* ======================================================= Report analyses
\* The values a result of an analysis can be: Python's None, a string, or a
\* dictionary (a record with kind "dict" and the dictionary's entries).
None == [kind |-> "None"]
Str(text) == [kind |-> "str", text |-> text]

\* The series ids of the BLS table, in the order sorting puts them.
SeriesIds == << "PRS30006011", "PRS30006032" >>
BlsYears == 2019 .. 2020
Periods == {"Q01", "Q02"}
BlsValues == {2, 3}

\* The rows of the table load_bls_data returns.
BlsRows ==
    [series_id : Range(SeriesIds), year : BlsYears, period : Periods,
     value : BlsValues]

\* The rows of the table load_population_data returns.
PopulationRows == [Year : {2013, 2019}, Population : {100}]

\* The tables of at most n rows over Rows.
Tables(Rows, n) == UNION {[1 .. k -> Rows] : k \in 0 .. n}

\* bls_data[...]['value'].sum()
RECURSIVE SumValues(_)
SumValues(rows) ==
    IF rows = << >> THEN 0
    ELSE Head(rows).value + SumValues(Tail(rows))

\* The (series_id, year) keys in the order groupby sorts them.
GroupKeys ==
    LET years == Cardinality(BlsYears)
        first == CHOOSE y \in BlsYears : \A z \in BlsYears : y <= z
    IN  [k \in 1 .. Len(SeriesIds) * years |->
            [series_id |-> SeriesIds[((k - 1) \div years) + 1],
             year |-> first + ((k - 1) % years)]]

\* The rows of one group.
GroupRows(bls, g) ==
    SelectSeq(bls, LAMBDA r : r.series_id = g.series_id /\ r.year = g.year)

\* yearly_sums with the greatest value of the group for its sum.
YearlySums_Max(bls) ==
    LET present == SelectSeq(GroupKeys, LAMBDA g : GroupRows(bls, g) # << >>)
    IN  [i \in 1 .. Len(present) |->
            [series_id |-> present[i].series_id, year |-> present[i].year,
             value |-> LET rows == GroupRows(bls, present[i])
                           values == {r.value : r \in Range(rows)}
                       IN  CHOOSE v \in values : \A w \in values : w <= v]]

\* yearly_sums = bls_data.groupby(['series_id', 'year'])['value'].sum()
\*                       .reset_index()
YearlySums(bls) ==
    LET present == SelectSeq(GroupKeys, LAMBDA g : GroupRows(bls, g) # << >>)
    IN  [i \in 1 .. Len(present) |->
            [series_id |-> present[i].series_id, year |-> present[i].year,
             value |-> SumValues(GroupRows(bls, present[i]))]]

\* yearly_sums.groupby('series_id')['value'].idxmax(): the first row of the
\* series with the greatest value.
IdxMax(sums, series_id) ==
    LET rows == {i \in 1 .. Len(sums) : sums[i].series_id = series_id}
    IN  CHOOSE i \in rows :
           /\ \A j \in rows : sums[j].value <= sums[i].value
           /\ \A j \in rows : sums[j].value = sums[i].value => i <= j

\* analyze_q2_best_years(bls_data)
analyze_q2_best_years(bls) ==
    IF Len(bls) = 0 THEN Str("No BLS data available")
    ELSE LET yearly_sums == YearlySums(bls)
             series == {yearly_sums[i].series_id :
                           i \in 1 .. Len(yearly_sums)}
             best_years_dict ==
                 [s \in series |->
                     LET best == yearly_sums[IdxMax(yearly_sums, s)]
                     IN  [year |-> best.year, value |-> best.value]]
         IN  [kind |-> "dict",
              analysis |-> "Q2 - Best Year per BLS Series",
              total_series |-> Cardinality(series),
              best_years |-> best_years_dict]

\* pop_filtered['Population'].sum()
RECURSIVE SumPopulation(_)
SumPopulation(rows) ==
    IF rows = << >> THEN 0
    ELSE Head(rows).Population + SumPopulation(Tail(rows))

\* The sum of the squares of the Population column.
RECURSIVE SumSquares(_)
SumSquares(rows) ==
    IF rows = << >> THEN 0
    ELSE Head(rows).Population * Head(rows).Population
             + SumSquares(Tail(rows))

\* pop_filtered['Population'].mean(), as a fraction
Mean(rows) == [num |-> SumPopulation(rows), den |-> Len(rows)]

\* pop_filtered['Population'].std(): the sample variance it is the root of,
\* as a fraction; for one row it is 0/0, which is NaN.
Variance(rows) ==
    LET n == Len(rows)
        total == SumPopulation(rows)
    IN  [num |-> n * SumSquares(rows) - total * total, den |-> n * (n - 1)]

\* analyze_q1_population_stats(pop_data)
analyze_q1_population_stats(pop) ==
    IF Len(pop) = 0 THEN None
    ELSE LET pop_filtered ==
                 SelectSeq(pop, LAMBDA r : r.Year >= 2013 /\ r.Year <= 2018)
         IN  IF Len(pop_filtered) = 0 THEN Str("No Data")
             ELSE [kind |-> "dict",
                   analysis |-> "Q1 - Population Statistics (2013-2018)",
                   mean_population |-> Mean(pop_filtered),
                   std_dev_population |-> Variance(pop_filtered),
                   record_count |-> Len(pop_filtered),
                   years |-> "2013-2018"]

target_series == "PRS30006032"
target_period == "Q01"

\* bls_data['series_id'].str.contains(target_series): the series ids are as
\* long as the target, so that one contains it only when it is equal to it.
StrContains(series_id, target) == series_id = target

\* series_q01: the rows of the target series and period, in table order.
SeriesQ01(bls) ==
    SelectSeq(bls, LAMBDA r : /\ StrContains(r.series_id, target_series)
                              /\ r.period = target_period)

\* The rows that the left join gives for one BLS row: one per population row
\* of its year, or one without a population (NaN, written << >>) when there
\* is none.
MergedRows(r, pop) ==
    LET matches == SelectSeq(pop, LAMBDA p : p.Year = r.year)
    IN  IF matches = << >>
        THEN << [series_id |-> r.series_id, year |-> r.year,
                 period |-> r.period, value |-> r.value,
                 Population |-> << >>] >>
        ELSE [i \in 1 .. Len(matches) |->
                 [series_id |-> r.series_id, year |-> r.year,
                  period |-> r.period, value |-> r.value,
                  Population |-> << matches[i].Population >>]]

\* series_q01.merge(pop_data[['Year', 'Population']], left_on='year',
\*                  right_on='Year', how='left')
RECURSIVE LeftMerge(_, _)
LeftMerge(rows, pop) ==
    IF rows = << >> THEN << >>
    ELSE MergedRows(Head(rows), pop) \o LeftMerge(Tail(rows), pop)

\* .sort_values('year'): rows of one year keep their order.
RECURSIVE SortByYear(_, _)
SortByYear(rows, years) ==
    IF years = {} THEN << >>
    ELSE LET first == CHOOSE y \in years : \A z \in years : y <= z
         IN  SelectSeq(rows, LAMBDA r : r.year = first)
                 \o SortByYear(rows, years \ {first})

\* analyze_q3_series_with_population with the population table looked at
\* before the filtered rows.
analyze_q3_series_with_population_PopulationFirst(bls, pop) ==
    LET series_q01 == SeriesQ01(bls)
    IN  IF Len(pop) = 0
        THEN [kind |-> "dict",
              analysis |-> "Q3 - Series " \o target_series \o " "
                               \o target_period \o " (BLS data only)",
              record_count |-> Len(series_q01),
              data |-> series_q01]
        ELSE IF Len(series_q01) = 0 THEN None
        ELSE LET final_report ==
                     SortByYear(LeftMerge(series_q01, pop), BlsYears)
                 years == {final_report[i].year :
                              i \in 1 .. Len(final_report)}
             IN  [kind |-> "dict",
                  analysis |-> "Q3 - Series " \o target_series \o " "
                                   \o target_period \o " + Population",
                  series_id |-> target_series,
                  period |-> target_period,
                  record_count |-> Len(final_report),
                  year_range |->
                      ToString(CHOOSE y \in years : \A z \in years : y <= z)
                          \o "-" \o
                      ToString(CHOOSE y \in years : \A z \in years : y >= z),
                  data |-> final_report]

\* analyze_q3_series_with_population(bls_data, pop_data). The left join
\* keeps every row of series_q01, so that final_report is not empty at
\* line 172.
analyze_q3_series_with_population(bls, pop) ==
    LET series_q01 == SeriesQ01(bls)
    IN  IF Len(series_q01) = 0 THEN None
        ELSE IF Len(pop) = 0
        THEN [kind |-> "dict",
              analysis |-> "Q3 - Series " \o target_series \o " "
                               \o target_period \o " (BLS data only)",
              record_count |-> Len(series_q01),
              data |-> series_q01]
        ELSE LET final_report ==
                     SortByYear(LeftMerge(series_q01, pop), BlsYears)
                 years == {final_report[i].year :
                              i \in 1 .. Len(final_report)}
             IN  [kind |-> "dict",
                  analysis |-> "Q3 - Series " \o target_series \o " "
                                   \o target_period \o " + Population",
                  series_id |-> target_series,
                  period |-> target_period,
                  record_count |-> Len(final_report),
                  year_range |->
                      ToString(CHOOSE y \in years : \A z \in years : y <= z)
                          \o "-" \o
                      ToString(CHOOSE y \in years : \A z \in years : y >= z),
                  data |-> final_report]

\* Report.lambda_handler, lines 209-210: the two tables are loaded.
LoadData ==
    /\ pc = "idle"
    /\ entry' = "report"
    /\ bls_data' \in Tables(BlsRows, MaxRows)
    /\ pop_data' \in Tables(PopulationRows, MaxPopulationRows)
    /\ pc' = "q1"
    /\ UNCHANGED << store, now, invocations, calls, bucket, user_agent,
                    outcome, status_code, part1_bls, part2_population,
                    syncVars, data, prev, failed, q1, q2, q3 >>

\* Report.lambda_handler, line 213
AnalyzeQ1 ==
    /\ pc = "q1"
    /\ q1' = analyze_q1_population_stats(pop_data)
    /\ pc' = "q2"
    /\ UNCHANGED << store, now, invocations, calls, entry, bucket,
                    user_agent, outcome, status_code, part1_bls,
                    part2_population, syncVars, data, prev, failed,
                    bls_data, pop_data, q2, q3 >>

\* Report.lambda_handler, line 214
AnalyzeQ2 ==
    /\ pc = "q2"
    /\ q2' = analyze_q2_best_years(bls_data)
    /\ pc' = "q3"
    /\ UNCHANGED << store, now, invocations, calls, entry, bucket,
                    user_agent, outcome, status_code, part1_bls,
                    part2_population, syncVars, data, prev, failed,
                    bls_data, pop_data, q1, q3 >>

\* Report.lambda_handler, line 215
AnalyzeQ3 ==
    /\ pc = "q3"
    /\ q3' = analyze_q3_series_with_population(bls_data, pop_data)
    /\ pc' = "exit"
    /\ outcome' = "returned"
    /\ UNCHANGED << store, now, invocations, calls, entry, bucket,
                    user_agent, status_code, part1_bls, part2_population,
                    syncVars, data, prev, failed, bls_data, pop_data,
                    q1, q2 >>

Next ==
    \/ Tick
    \/ LambdaHandler
    \/ DiscoverBlsFiles
    \/ ListS3Files
    \/ ProcessFile
    \/ TrackDeletions
    \/ CopyOrphan
    \/ DeleteOriginal
    \/ SyncBlsReturn
    \/ FetchPopulationData
    \/ SavePopulationToS3
    \/ OverallStatus
    \/ AnalyticsHandler

\* The two Lambda entrypoints, invoked one after the other.
Spec == Init /\ [][Next]_vars

\* sync_bls_to_s3 called again and again on one bucket.
NextSync ==
    \/ Tick
    \/ SyncBlsToS3
    \/ DiscoverBlsFiles
    \/ ListS3Files
    \/ ProcessFile
    \/ TrackDeletions
    \/ CopyOrphan
    \/ DeleteOriginal
    \/ SyncBlsReturn

SpecSync == Init /\ [][NextSync]_vars

\* sync_datausa_to_s3 called again and again on one bucket.
NextSnapshot ==
    \/ Tick
    \/ SyncDatausaToS3
    \/ FetchPopulationData
    \/ SavePopulationToS3

SpecSnapshot == Init /\ [][NextSnapshot]_vars

\* The three analyses of Report.py applied to tables drawn from the bounded
\* sets.
NextReport ==
    \/ LoadData
    \/ AnalyzeQ1
    \/ AnalyzeQ2
    \/ AnalyzeQ3

SpecReport == Init /\ [][NextReport]_vars

\* =============================================================== claims

\* A decision that should_upload returned (it did not raise).
Decided == decision.called /\ ~decision.raised

\* C1 (as stated): whenever should_upload is called with an absent remote
\* timestamp, whether or not an object is stored at the key, it answers
\* upload = true with reason "no-timestamp".
C1_NoTimestampWhateverStored ==
    (Decided /\ decision.ts = NoTimestamp)
        => (decision.upload /\ decision.reason = "no-timestamp")

\* C1 (amended): whenever should_upload is called with an absent remote
\* timestamp and returns, it answers upload = true; the reason is
\* "no-timestamp" when an object is stored at the key and "new" when none is.
C1_NoTimestampUploads ==
    (Decided /\ decision.ts = NoTimestamp)
        => /\ decision.upload
           /\ decision.reason =
                 IF decision.found THEN "no-timestamp" ELSE "new"

C1_Witness ==
    /\ Decided /\ decision.ts = NoTimestamp /\ decision.found
    /\ decision.reason = "no-timestamp"
    /\ uploaded >= 1

\* C2: whenever should_upload is called for a key that holds an object, with
\* a remote timestamp that is present, it answers upload = true, reason
\* "updated" exactly when the remote timestamp is strictly greater than the
\* stored last-modified timestamp, and upload = false, reason "up-to-date"
\* otherwise, equality included.
C2_StrictlyNewerUploads ==
    (Decided /\ decision.found /\ decision.ts # NoTimestamp)
        => IF decision.ts > decision.stored
           THEN decision.upload /\ decision.reason = "updated"
           ELSE ~decision.upload /\ decision.reason = "up-to-date"

C2_Witness ==
    /\ Decided /\ decision.found /\ decision.ts = decision.stored
    /\ decision.reason = "up-to-date"
    /\ skipped >= 1

\* The names of the objects stored directly under the live prefix.
StoredNames == {k[2] : k \in {j \in DOMAIN store : j[1] = "pr" /\ Len(j) = 2}}

\* The names of the objects stored under the archival sub-path.
ArchivedNames ==
    {k[3] : k \in {j \in DOMAIN store :
                      j[1] = "pr" /\ Len(j) = 3 /\ j[2] = "deleted"}}

\* The orphans have just been selected: no move has been attempted yet.
OrphansSelected == pc = "archive" /\ attempted = << >>

\* C3 (as stated): in every run of sync_bls_to_s3 the files selected for
\* archiving are exactly the names stored directly under the live prefix
\* minus the names of the remote listing, and none of them is a file that
\* the run before has archived.
C3_OrphansAreStoredMinusRemote ==
    OrphansSelected
        => /\ Range(orphaned_files) = StoredNames \ BlsFileNames(files)
           /\ Range(orphaned_files) \cap prev.moved = {}

\* C3 (amended): in every run of sync_bls_to_s3 in which the listing of the
\* live prefix succeeds, the files selected for archiving are exactly the
\* names stored directly under the live prefix minus the names of the remote
\* listing; when that listing fails, no file is selected. In both cases none
\* of the selected files is a file that the run before has archived.
C3_OrphansOfListedRun ==
    OrphansSelected
        => /\ Range(orphaned_files) =
                 IF listed THEN StoredNames \ BlsFileNames(files) ELSE {}
           /\ Range(orphaned_files) \cap prev.moved = {}

C3_Witness ==
    /\ OrphansSelected /\ listed
    /\ prev.moved = {"pr.txt"}
    /\ "pr.txt" \in ArchivedNames
    /\ orphaned_files = << "pr.data.0.Current" >>

\* C4: a key leaves the bucket only if it is a live key of the BLS prefix
\* whose content is, at that moment, stored under "deleted/<filename>": no
\* step removes an object that has not been copied to the archival sub-path
\* before.
C4_RemovedOnlyAfterCopy ==
    [][\A k \in DOMAIN store :
          k \notin DOMAIN store'
              => /\ k[1] = "pr" /\ Len(k) = 2
                 /\ DeletedKey(k[2]) \in DOMAIN store
                 /\ store[DeletedKey(k[2])].body = store[k].body]_vars

C4_Witness ==
    /\ moved >= 1
    /\ errors >= 1
    /\ "pr.txt" \notin StoredNames
    /\ "pr.txt" \in ArchivedNames

\* The upload loop runs against the listing of the latest run, whose upload
\* loop had no error.
RerunOfCleanRun ==
    /\ pc = "loop"
    /\ prev.valid /\ prev.clean
    /\ prev.files = Range(files)

\* C5 (as stated): a run of sync_bls_to_s3 that follows a run without
\* per-file errors, with the same remote listing, uploads no file.
C5_RerunUploadsNothing == RerunOfCleanRun => uploaded = 0

\* C5 (amended): in a run of sync_bls_to_s3 that follows a run without
\* per-file errors, with the same remote listing, every file is found in
\* storage (none is uploaded as "new"), and a file is uploaded again exactly
\* when its remote timestamp is absent or later than the stored last-modified
\* time; every other file whose lookup succeeds is skipped.
C5_RerunUploadsOnlyUndated ==
    (RerunOfCleanRun /\ Decided)
        => /\ decision.found
           /\ decision.upload <=>
                 \/ decision.ts = NoTimestamp
                 \/ decision.ts > decision.stored

C5_Witness ==
    /\ RerunOfCleanRun
    /\ Len(files) = 2 /\ idx = 3
    /\ skipped = 1 /\ uploaded = 1
    /\ Decided /\ decision.reason = "no-timestamp"

\* C6: every successful save_population_to_s3 writes a key that held no
\* object before, so that no snapshot written earlier is overwritten.
C6_SnapshotKeyIsNew ==
    [][(pc = "save" /\ part2_population'.success)
          => part2_population'.s3_key \notin DOMAIN store]_vars

\* A Lambda entrypoint has ended.
Exited == pc = "exit"
IngestionExited == Exited /\ entry = "lambda_handler"
AnalyticsExited == Exited /\ entry = "analytics"

\* C7 (as stated): no invocation of either entrypoint raises; each returns
\* a response with a status code.
C7_HandlersNeverRaise ==
    (IngestionExited \/ AnalyticsExited)
        => outcome = "returned" /\ status_code \in {200, 207, 500}

\* C7 (amended): every invocation of the analytics entrypoint returns a
\* response with status code 200 or 500, and every invocation of the
\* ingestion entrypoint whose configuration names the bucket and the user
\* agent returns a response with status code 200, 207 or 500, whatever fails
\* in HTTP or storage; an ingestion invocation with the bucket or the user
\* agent missing raises and returns no response.
C7_HandlersRaiseOnlyOnConfig ==
    /\ AnalyticsExited
          => outcome = "returned" /\ status_code \in {200, 500}
    /\ IngestionExited
          => IF bucket /\ user_agent
             THEN outcome = "returned" /\ status_code \in {200, 207, 500}
             ELSE outcome = "raised" /\ status_code = 0
    /\ (entry = "lambda_handler" /\ ~Exited) => outcome = "none"

C7_Witness ==
    /\ IngestionExited /\ outcome = "returned"
    /\ part1_bls.fatal
    /\ part2_population.present /\ ~part2_population.success
    /\ status_code = 500

\* The BLS part succeeded: sync_bls_to_s3 returned and counted no error.
Part1Succeeded ==
    part1_bls.present /\ ~part1_bls.fatal /\ part1_bls.errors = 0

\* The population part succeeded: the snapshot is in the bucket.
Part2Succeeded == part2_population.s3_key \in DOMAIN store

\* C8: the response of the ingestion handler carries 200 exactly when both
\* parts succeeded, 207 exactly when one of the two did, 500 exactly when
\* none did, and never another status code.
C8_StatusCodeOfParts ==
    (IngestionExited /\ outcome = "returned")
        => /\ status_code \in {200, 207, 500}
           /\ status_code = 200 <=> (Part1Succeeded /\ Part2Succeeded)
           /\ status_code = 207 <=> (Part1Succeeded # Part2Succeeded)
           /\ status_code = 500 <=> (~Part1Succeeded /\ ~Part2Succeeded)

C8_Witness ==
    /\ IngestionExited /\ outcome = "returned"
    /\ Part1Succeeded /\ part1_bls.total = 2
    /\ part2_population.present /\ ~Part2Succeeded
    /\ status_code = 207

\* The objects of the BLS prefix.
BlsObjects(s3) == [k \in ListObjects(s3, "pr") |-> s3[k]]

\* C9: the ingestion handler runs the population stage after the BLS stage
\* whether or not the BLS stage failed, so that a response always reports
\* both parts, and reports 207 when exactly one of them failed; the steps of
\* the population stage change neither the result of the BLS stage nor the
\* objects it wrote.
C9_StagesAreIndependent ==
    /\ [](IngestionExited /\ outcome = "returned"
             => /\ part1_bls.present /\ part2_population.present
                /\ (part1_bls.success # part2_population.success)
                      => status_code = 207)
    /\ [][(entry = "lambda_handler" /\ pc \in {"part2", "save"})
             => /\ part1_bls' = part1_bls
                /\ BlsObjects(store') = BlsObjects(store)]_vars

C9_Witness ==
    /\ IngestionExited /\ outcome = "returned"
    /\ part1_bls.fatal
    /\ Part2Succeeded
    /\ status_code = 207

\* The orphan loop is running.
InOrphanLoop == pc \in {"archive", "delete"}

\* The moves of the orphan loop that have ended, with or without an error.
MovesEnded == oidx - 1

\* The errors that the upload loop had counted when the orphan loop began.
UploadErrors == Len(files) - uploaded - skipped

\* C10: in the orphan loop of sync_bls_to_s3 the orphans are attempted one
\* by one in the order of orphaned_files, each exactly once, whatever the
\* copies and deletes before did: every move that has ended has either been
\* counted as moved (its live key is gone) or has added one to the error
\* counter (its live key is still there), never both; the position of the
\* loop never passes the end of the list, and when it reaches it every orphan
\* has been attempted.
C10_EveryOrphanAttemptedOnce ==
    InOrphanLoop
        => /\ oidx <= Len(orphaned_files) + 1
           /\ Len(attempted) = IF pc = "delete" THEN oidx ELSE oidx - 1
           /\ attempted = SubSeq(orphaned_files, 1, Len(attempted))
           /\ moved + (errors - UploadErrors) = MovesEnded
           /\ moved = Cardinality({i \in 1 .. MovesEnded :
                         LiveKey(orphaned_files[i]) \notin DOMAIN store})
           /\ (pc = "archive" /\ oidx > Len(orphaned_files))
                 => attempted = orphaned_files

C10_Witness ==
    /\ pc = "archive"
    /\ Len(orphaned_files) = 2 /\ oidx = 3
    /\ attempted = orphaned_files
    /\ errors = 1 /\ moved = 1
    /\ LiveKey(orphaned_files[1]) \in DOMAIN store
    /\ LiveKey(orphaned_files[2]) \notin DOMAIN store

\* The rows of the BLS table that belong to a series, and to one of its
\* years.
RowsOfSeries(s) == {i \in 1 .. Len(bls_data) : bls_data[i].series_id = s}
RowsOfYear(s, y) == {i \in RowsOfSeries(s) : bls_data[i].year = y}

\* The sum of the values of a set of rows of the BLS table.
RECURSIVE SumOfRows(_)
SumOfRows(I) ==
    IF I = {} THEN 0
    ELSE LET i == CHOOSE j \in I : TRUE
         IN  bls_data[i].value + SumOfRows(I \ {i})

\* C11: applied to a BLS table that is not empty, analyze_q2_best_years
\* returns a mapping that has, for each series_id of the table and for no
\* other, one (year, value) pair: value is the greatest, over the years of
\* the series, of the sum of the series' values within the year, and year is
\* the earliest year whose sum is that value (the first one in the order of
\* the grouped table). Applied to the empty table it returns the string
\* "No BLS data available".
C11_BestYearPerSeries ==
    q2 # NotRun
        => IF bls_data = << >> THEN q2 = Str("No BLS data available")
           ELSE /\ q2.kind = "dict"
                /\ DOMAIN q2.best_years =
                      {bls_data[i].series_id : i \in 1 .. Len(bls_data)}
                /\ q2.total_series = Cardinality(DOMAIN q2.best_years)
                /\ \A s \in DOMAIN q2.best_years :
                      LET years == {bls_data[i].year : i \in RowsOfSeries(s)}
                          best == q2.best_years[s]
                      IN  /\ DOMAIN best = {"year", "value"}
                          /\ best.year \in years
                          /\ best.value = SumOfRows(RowsOfYear(s, best.year))
                          /\ \A y \in years :
                                /\ SumOfRows(RowsOfYear(s, y)) <= best.value
                                /\ SumOfRows(RowsOfYear(s, y)) = best.value
                                      => best.year <= y

C11_Witness ==
    /\ q2 # NotRun
    /\ bls_data =
          << [series_id |-> "PRS30006011", year |-> 2020, period |-> "Q01",
              value |-> 3],
             [series_id |-> "PRS30006011", year |-> 2019, period |-> "Q01",
              value |-> 2],
             [series_id |-> "PRS30006011", year |-> 2019, period |-> "Q02",
              value |-> 2] >>
    /\ q2.total_series = 1
    /\ q2.best_years["PRS30006011"] = [year |-> 2019, value |-> 4]

\* C12: applied to the empty population table, analyze_q1_population_stats
\* returns a sentinel string: not None (an absent result), and not a
\* statistics object.
C12_EmptyTableGivesSentinel ==
    (q1 # NotRun /\ pop_data = << >>) => (q1.kind = "str" /\ q1 # None)

\* The rows of the BLS table that the Q3 filter keeps.
FilteredRows ==
    {i \in 1 .. Len(bls_data) :
        /\ StrContains(bls_data[i].series_id, "PRS30006032")
        /\ bls_data[i].period = "Q01"}

\* C13: when no row of the BLS table has a series_id containing
\* "PRS30006032" and the period "Q01", analyze_q3_series_with_population
\* returns None, whatever the population table is. When there are such rows
\* and the population table is empty, it returns the BLS-only payload: its
\* record_count is the number of those rows, its data are those rows, and no
\* row of it has a Population field.
C13_BlsOnlyOrAbsent ==
    q3 # NotRun
        => /\ FilteredRows = {} => q3 = None
           /\ (FilteredRows # {} /\ pop_data = << >>)
                 => /\ q3.kind = "dict"
                    /\ q3.analysis
                          = "Q3 - Series PRS30006032 Q01 (BLS data only)"
                    /\ q3.record_count = Cardinality(FilteredRows)
                    /\ Len(q3.data) = Cardinality(FilteredRows)
                    /\ Range(q3.data) = {bls_data[i] : i \in FilteredRows}
                    /\ \A k \in 1 .. Len(q3.data) :
                          "Population" \notin DOMAIN q3.data[k]

C13_Witness ==
    /\ q3 # NotRun
    /\ pop_data = << >>
    /\ Len(bls_data) = 3
    /\ Cardinality(FilteredRows) = 2
    /\ q3.kind = "dict" /\ q3.record_count = 2

\* C14: when sync_bls_to_s3 has returned, every file of the remote listing
\* has been counted once, as uploaded, as skipped or as failed: uploaded +
\* skipped + the number of files whose decision or upload raised = total;
\* the errors counter is that number of failed files plus the number of
\* orphans whose move raised; and success is true exactly when the errors
\* counter is 0.
C14_CountersAddUp ==
    (part1_bls.present /\ ~part1_bls.fatal)
        => /\ part1_bls.uploaded + part1_bls.skipped + failed.files
                 = part1_bls.total
           /\ part1_bls.errors = failed.files + failed.moves
           /\ part1_bls.success <=> (part1_bls.errors = 0)

C14_Witness ==
    /\ entry = "sync_bls_to_s3" /\ outcome = "returned"
    /\ part1_bls.present
    /\ part1_bls.total = 1
    /\ part1_bls.uploaded = 0 /\ part1_bls.skipped = 0
    /\ failed.files = 1 /\ failed.moves = 1
    /\ part1_bls.errors = 2
    /\ ~part1_bls.success

====
